---- MODULE Spec2Model ----
(***************************************************************************)
(* Mass-spring-damper explorer (src/harmonic_oscillators_app.py).          *)
(*                                                                         *)
(* The script is re-run from top to bottom on every interaction.  The      *)
(* model keeps the widget values, the session's trace list and the values  *)
(* one run computes, and has one action per interaction; each action is a  *)
(* whole run of the script.                                                *)
(*                                                                         *)
(* Every number the script computes is a Python float / numpy float64.     *)
(* The arithmetic is modelled as IEEE-754 binary64 with round-to-nearest-  *)
(* even: a finite float is sg * m * 2^e with m a 53-bit natural, kept as   *)
(* a sequence of 15-bit limbs because its products do not fit the 32-bit   *)
(* integers of TLC.                                                        *)
(***************************************************************************)
EXTENDS Integers, Sequences, FiniteSets, TLC

(***************************************************************************)
(* Every operation of the arithmetic, and every table computed from it, is *)
(* reached through the one recursive definition Lib (defined after the     *)
(* operations): NameOf(...) is the operation, Name(...) applies it through *)
(* Lib, which evaluates the arguments first.  TLC then elaborates each     *)
(* operation once instead of once for every place it is used in.           *)
(***************************************************************************)
RECURSIVE Lib(_, _)

(***************************************************************************)
(* Naturals of arbitrary size: little-endian limbs, no leading zero limb.  *)
(***************************************************************************)
Base == 2^15

\* bits of a binary64 significand
Prec == 53

Pow2(n) == 2^n

Limb(u, i) == IF i <= Len(u) THEN u[i] ELSE 0

RECURSIVE BNorm(_)
BNorm(u) ==
    IF u = << >> THEN u
    ELSE IF u[Len(u)] = 0 THEN BNorm(SubSeq(u, 1, Len(u) - 1))
    ELSE u

BFromNat(n) ==
    BNorm(<< n % Base, (n \div Base) % Base, n \div (Base * Base) >>)

RECURSIVE BAddC(_, _, _, _)
BAddC(u, v, i, c) ==
    IF i > Len(u) /\ i > Len(v)
    THEN (IF c = 0 THEN << >> ELSE << c >>)
    ELSE LET s == Limb(u, i) + Limb(v, i) + c
         IN  << s % Base >> \o BAddC(u, v, i + 1, s \div Base)

BAddOf(u, v) == BAddC(u, v, 1, 0)
BAdd(u, v) == Lib("BAdd", << u, v >>)

RECURSIVE BSubC(_, _, _, _)
BSubC(u, v, i, c) ==
    IF i > Len(u) THEN << >>
    ELSE LET s == u[i] - Limb(v, i) - c
         IN  IF s < 0 THEN << s + Base >> \o BSubC(u, v, i + 1, 1)
             ELSE << s >> \o BSubC(u, v, i + 1, 0)

\* u - v for u >= v
BSubOf(u, v) == BNorm(BSubC(u, v, 1, 0))
BSub(u, v) == Lib("BSub", << u, v >>)

RECURSIVE BCmpAt(_, _, _)
BCmpAt(u, v, i) ==
    IF i = 0 THEN 0
    ELSE IF u[i] < v[i] THEN -1
    ELSE IF u[i] > v[i] THEN 1
    ELSE BCmpAt(u, v, i - 1)

\* -1, 0, 1 as u < v, u = v, u > v
BCmpOf(u, v) ==
    IF Len(u) < Len(v) THEN -1
    ELSE IF Len(u) > Len(v) THEN 1
    ELSE BCmpAt(u, v, Len(u))
BCmp(u, v) == Lib("BCmp", << u, v >>)

RECURSIVE BMulSmallC(_, _, _, _)
BMulSmallC(u, f, i, c) ==
    IF i > Len(u) THEN (IF c = 0 THEN << >> ELSE << c >>)
    ELSE LET s == u[i] * f + c
         IN  << s % Base >> \o BMulSmallC(u, f, i + 1, s \div Base)

\* u * f for 0 <= f < Base
BMulSmallOf(u, f) == IF f = 0 THEN << >> ELSE BMulSmallC(u, f, 1, 0)
BMulSmall(u, f) == Lib("BMulSmall", << u, f >>)

Zeros(n) == [i \in 1..n |-> 0]

\* u * Base^n
BShiftLimbs(u, n) == IF u = << >> THEN u ELSE Zeros(n) \o u

RECURSIVE BMulAt(_, _, _)
BMulAt(u, v, i) ==
    IF i > Len(v) THEN << >>
    ELSE BAdd(BShiftLimbs(BMulSmall(u, v[i]), i - 1), BMulAt(u, v, i + 1))

BMulOf(u, v) == BMulAt(u, v, 1)
BMul(u, v) == Lib("BMul", << u, v >>)

\* u * 2^n
BShlOf(u, n) == BShiftLimbs(BMulSmall(u, Pow2(n % 15)), n \div 15)
BShl(u, n) == Lib("BShl", << u, n >>)

\* floor(u / 2^(15 q + r)) for r < 15
BShrBy(u, q, r) ==
    IF q >= Len(u) THEN << >>
    ELSE BNorm([i \in 1..(Len(u) - q) |->
                 (u[i + q] \div Pow2(r)) + (Limb(u, i + q + 1) % Pow2(r)) * Pow2(15 - r)])

\* floor(u / 2^n)
BShrOf(u, n) == BShrBy(u, n \div 15, n % 15)
BShr(u, n) == Lib("BShr", << u, n >>)

\* u mod 2^n # 0
BLowNonzero(u, n) ==
    \/ \E i \in 1..Len(u) : i <= n \div 15 /\ u[i] # 0
    \/ Limb(u, n \div 15 + 1) % Pow2(n % 15) # 0

RECURSIVE NatBits(_)
NatBits(n) == IF n = 0 THEN 0 ELSE 1 + NatBits(n \div 2)

BitLenOf(u) == IF u = << >> THEN 0 ELSE 15 * (Len(u) - 1) + NatBits(u[Len(u)])
BitLen(u) == Lib("BitLen", << u >>)

\* bit i of u, bit 0 the least significant
BBit(u, i) == (Limb(u, i \div 15 + 1) \div Pow2(i % 15)) % 2

BOdd(u) == Limb(u, 1) % 2 = 1

BOne == << 1 >>

\* the quotient digit of one step of long division of r0 by d from the
\* estimate qh, which is the digit or up to 2 more
BDivDigit(d, r0, qh) ==
    IF BCmpOf(BMulSmallOf(d, qh), r0) <= 0 THEN qh
    ELSE IF BCmpOf(BMulSmallOf(d, qh - 1), r0) <= 0 THEN qh - 1
    ELSE qh - 2

\* the estimate from the top limbs of r0 and the top limb of d
BDivEstimate(d, r0) ==
    LET est == (Limb(r0, Len(d) + 1) * Base + Limb(r0, Len(d))) \div d[Len(d)]
    IN  IF est > Base - 1 THEN Base - 1 ELSE est

\* schoolbook long division by d, whose top limb is >= Base / 2, one limb of
\* n per step; rem is the running remainder, below d, and r0 is rem with the
\* next limb brought down
RECURSIVE BDivAt(_, _, _, _, _)
BDivAt(n, d, i, rem, q) ==
    IF i = 0 THEN [q |-> BNorm(q), rem |-> rem]
    ELSE LET r0 == BNorm(<< n[i] >> \o rem)
             qd == BDivDigit(d, r0, BDivEstimate(d, r0))
         IN  IF Len(r0) < Len(d) \/ qd = 0
             THEN BDivAt(n, d, i - 1, r0, << 0 >> \o q)
             ELSE BDivAt(n, d, i - 1, BSub(r0, BMulSmall(d, qd)), << qd >> \o q)

\* the top Len(dd) - 1 limbs of nn are below dd: the first digit comes from
\* the limb under them
BDivScaled(nn, dd) ==
    IF Len(nn) < Len(dd) THEN [q |-> << >>, rem |-> nn]
    ELSE BDivAt(nn, dd, Len(nn) - Len(dd) + 1,
                SubSeq(nn, Len(nn) - Len(dd) + 2, Len(nn)), << >>)

\* q = floor(n / d) and whether the division leaves no remainder, d # 0
BDivOf(n, d) ==
    LET r == BDivScaled(BShl(n, 15 * Len(d) - BitLen(d)), BShl(d, 15 * Len(d) - BitLen(d)))
    IN  [q |-> r.q, exact |-> r.rem = << >>]
BDiv(n, d) == Lib("BDiv", << n, d >>)

\* floor(sqrt(v)) of a machine integer by Newton's iteration from r >= sqrt(v)
RECURSIVE ISqrtFrom(_, _)
ISqrtFrom(v, r) ==
    LET nxt == (r + v \div r) \div 2
    IN  IF nxt >= r THEN r ELSE ISqrtFrom(v, nxt)

\* floor(sqrt(n)) by Newton's iteration from r >= sqrt(n)
RECURSIVE BSqrtFrom(_, _)
BSqrtNext(n, r, quo) ==
    IF BCmpOf(quo, r) >= 0 THEN r ELSE BSqrtFrom(n, BShr(BAdd(r, quo), 1))

BSqrtFrom(n, r) == BSqrtNext(n, r, BDiv(n, r).q)

\* a first r >= sqrt(n) from the top 30 bits of n, sh the even number of
\* bits below them
BSqrtStart(n, sh) ==
    LET top == BShr(n, sh)
    IN  BShl(BFromNat(ISqrtFrom(Limb(top, 1) + Limb(top, 2) * Base, Base) + 1), sh \div 2)

BSqrtShift(len) == IF len <= 30 THEN 0 ELSE 2 * ((len - 29) \div 2)

BSqrtCheck(n, r) == [q |-> r, exact |-> BCmpOf(BMul(r, r), n) = 0]

\* q = floor(sqrt(n)) and whether n is a perfect square, n # 0
BSqrtOf(n) == BSqrtCheck(n, BSqrtFrom(n, BSqrtStart(n, BSqrtShift(BitLen(n)))))
BSqrt(n) == Lib("BSqrt", << n >>)

(***************************************************************************)
(* binary64 values and operations (Python float, numpy.float64).           *)
(***************************************************************************)
FZero == [kind |-> "fin", sg |-> 0, m |-> << >>, e |-> 0]
FNaN  == [kind |-> "nan", sg |-> 0, m |-> << >>, e |-> 0]
FInf(s) == [kind |-> "inf", sg |-> s, m |-> << >>, e |-> 0]

IsFinite(p) == p.kind = "fin"

Fin(sg, n, e) == [kind |-> "fin", sg |-> sg, m |-> n, e |-> e]

\* a significand that rounding carried to Prec + 1 bits is halved
RoundCarry(sg, q1, e) ==
    IF BitLen(q1) > Prec THEN Fin(sg, BShr(q1, 1), e + 1) ELSE Fin(sg, q1, e)

\* q is n without its sh low bits: round up on more than half, or on half
\* when q is odd
RoundUp(n, sh, sticky, q) ==
    BBit(n, sh - 1) = 1 /\ (BLowNonzero(n, sh - 1) \/ sticky \/ BOdd(q))

RoundTo(sg, n, e, sticky, sh, q) ==
    RoundCarry(sg, IF RoundUp(n, sh, sticky, q) THEN BAdd(q, BOne) ELSE q, e + sh)

RoundLen(sg, n, e, sticky, len) ==
    IF len <= Prec THEN Fin(sg, BShl(n, Prec - len), e - (Prec - len))
    ELSE RoundTo(sg, n, e, sticky, len - Prec, BShr(n, len - Prec))

\* sg * (n + f) * 2^e rounded to nearest, ties to even; 0 < f < 1 iff sticky
RoundOf(sg, n, e, sticky) ==
    IF n = << >> THEN FZero ELSE RoundLen(sg, n, e, sticky, BitLen(n))
Round(sg, n, e, sticky) == Lib("Round", << sg, n, e, sticky >>)

Sign(n) == IF n > 0 THEN 1 ELSE IF n < 0 THEN -1 ELSE 0

\* float(n) for an integer n
FromIntOf(n) == Round(Sign(n), BFromNat(IF n < 0 THEN -n ELSE n), 0, FALSE)
FromInt(n) == Lib("FromInt", << n >>)

FNeg(p) == [p EXCEPT !.sg = -p.sg]

FAbs(p) == [p EXCEPT !.sg = IF p.sg = 0 THEN 0 ELSE 1]

\* p * q
FMulOf(p, q) ==
    IF p.kind = "nan" \/ q.kind = "nan" THEN FNaN
    ELSE IF p.kind = "inf" \/ q.kind = "inf"
    THEN (IF p.sg * q.sg = 0 THEN FNaN ELSE FInf(p.sg * q.sg))
    ELSE IF p.sg = 0 \/ q.sg = 0 THEN FZero
    ELSE Round(p.sg * q.sg, BMul(p.m, q.m), p.e + q.e, FALSE)
FMul(p, q) == Lib("FMul", << p, q >>)

\* the quotient of the significands carries Prec + 7 bits more than needed
FDivRound(sg, d, e) ==
    IF d.exact THEN Round(sg, d.q, e, FALSE) ELSE Round(sg, d.q, e, TRUE)

\* p / q with numpy's result for a zero divisor (inf or nan, no exception)
FDivOf(p, q) ==
    IF p.kind = "nan" \/ q.kind = "nan" THEN FNaN
    ELSE IF p.kind = "inf"
    THEN (IF q.kind = "inf" THEN FNaN ELSE FInf(IF q.sg = 0 THEN p.sg ELSE p.sg * q.sg))
    ELSE IF q.kind = "inf" THEN FZero
    ELSE IF q.sg = 0 THEN (IF p.sg = 0 THEN FNaN ELSE FInf(p.sg))
    ELSE IF p.sg = 0 THEN FZero
    ELSE FDivRound(p.sg * q.sg, BDiv(BShl(p.m, Prec + 7), q.m), p.e - q.e - (Prec + 7))
FDiv(p, q) == Lib("FDiv", << p, q >>)

\* the sum of sp * pm * 2^e and sq * qm * 2^e, c comparing pm with qm
FAddAligned(sp, pm, sq, qm, e, c) ==
    IF sp = sq THEN Round(sp, BAdd(pm, qm), e, FALSE)
    ELSE IF c = 0 THEN FZero
    ELSE IF c > 0 THEN Round(sp, BSub(pm, qm), e, FALSE)
    ELSE Round(sq, BSub(qm, pm), e, FALSE)

FAddAlign(sp, pm, sq, qm, e) == FAddAligned(sp, pm, sq, qm, e, BCmp(pm, qm))

FAddAt(p, q, e) == FAddAlign(p.sg, BShl(p.m, p.e - e), q.sg, BShl(q.m, q.e - e), e)

\* p + q
FAddOf(p, q) ==
    IF p.kind = "nan" \/ q.kind = "nan" THEN FNaN
    ELSE IF p.kind = "inf"
    THEN (IF q.kind = "inf" /\ q.sg # p.sg THEN FNaN ELSE p)
    ELSE IF q.kind = "inf" THEN q
    ELSE IF p.sg = 0 THEN q
    ELSE IF q.sg = 0 THEN p
    ELSE FAddAt(p, q, IF p.e < q.e THEN p.e ELSE q.e)
FAdd(p, q) == Lib("FAdd", << p, q >>)

\* p - q
FSub(p, q) == FAdd(p, FNeg(q))

FSqrtRound(s, e) ==
    IF s.exact THEN Round(1, s.q, e, FALSE) ELSE Round(1, s.q, e, TRUE)

\* the significand is scaled by 2^f, f making the exponent even
FSqrtAt(p, f) == FSqrtRound(BSqrt(BShl(p.m, f)), (p.e - f) \div 2)

\* numpy.sqrt(p): nan for a negative p, no exception
FSqrtOf(p) ==
    IF p.kind = "nan" \/ p.sg < 0 THEN FNaN
    ELSE IF p.kind = "inf" \/ p.sg = 0 THEN p
    ELSE FSqrtAt(p, IF (p.e % 2) = 0 THEN Prec + 5 ELSE Prec + 4)
FSqrt(p) == Lib("FSqrt", << p >>)

\* the order of |p| and |q|, both nonzero: every significand has Prec bits
FCmpAbs(p, q) ==
    IF p.kind # q.kind THEN (IF p.kind = "fin" THEN -1 ELSE 1)
    ELSE IF p.kind = "inf" THEN 0
    ELSE IF p.e < q.e THEN -1
    ELSE IF p.e > q.e THEN 1
    ELSE BCmp(p.m, q.m)

\* -1, 0, 1 as p < q, p = q, p > q, for p and q not nan
FCmpOf(p, q) ==
    IF p.sg # q.sg THEN (IF p.sg < q.sg THEN -1 ELSE 1)
    ELSE IF p.sg = 0 THEN 0
    ELSE p.sg * FCmpAbs(p, q)
FCmp(p, q) == Lib("FCmp", << p, q >>)

\* the comparison operators: every comparison with nan is false
FGt(p, q) == p.kind # "nan" /\ q.kind # "nan" /\ FCmp(p, q) > 0
FLe(p, q) == p.kind # "nan" /\ q.kind # "nan" /\ FCmp(p, q) <= 0
FEq(p, q) == p.kind # "nan" /\ q.kind # "nan" /\ FCmp(p, q) = 0

\* int(u) for a natural below Base^3
BToNat(u) == Limb(u, 1) + Limb(u, 2) * Base + Limb(u, 3) * Base * Base

\* u * 2^(-sh) rounded half-even to a natural
FormatRound(u, sh, q) ==
    BToNat(q) + (IF /\ sh > 0 /\ BBit(u, sh - 1) = 1
                    /\ ((sh > 1 /\ BLowNonzero(u, sh - 1)) \/ BOdd(q))
                 THEN 1 ELSE 0)

FormatDigits(u, sh) ==
    FormatRound(u, sh, IF sh <= 0 THEN BShl(u, -sh) ELSE BShr(u, sh))

\* f"{p:.Nf}" with units = 10^N: the sign and the decimal digits of |p| * units
\* rounded half-even from the exact binary value ("-0.00" keeps its sign)
FormatOf(p, units) ==
    IF p.kind # "fin" THEN [text |-> p.kind, neg |-> p.sg < 0, digits |-> 0]
    ELSE IF p.sg = 0 THEN [text |-> "fixed", neg |-> FALSE, digits |-> 0]
    ELSE [text |-> "fixed", neg |-> p.sg < 0,
          digits |-> FormatDigits(BMul(p.m, BFromNat(units)), -p.e)]
Format(p, units) == Lib("Format", << p, units >>)

(***************************************************************************)
(* numpy.isclose(a, b) with its default tolerances.                        *)
(***************************************************************************)
rtol == FDiv(FromInt(1), FromInt(100000))

atol == FDiv(FromInt(1), FromInt(100000000))

np_iscloseOf(a_, b_) ==
    IF IsFinite(a_) /\ IsFinite(b_)
    THEN FLe(FAbs(FSub(a_, b_)), FAdd(atol, FMul(rtol, FAbs(b_))))
    ELSE a_.kind = "inf" /\ a_ = b_
np_isclose(a_, b_) == Lib("np_isclose", << a_, b_ >>)

(***************************************************************************)
(* The widgets (lines 18-23).  A slider position is a count of steps; the  *)
(* value the script reads is the float nearest to the decimal shown.       *)
(***************************************************************************)
\* a slider with step 0.1 at position n tenths
Slider(n) == FDiv(FromInt(n), FromInt(10))

\* the values the script reads for a slider configuration
Widgets(c) ==
    [m |-> Slider(c.m), k |-> Slider(c.k), b |-> Slider(c.b),
     x0 |-> Slider(c.x0), v0 |-> Slider(c.v0), t_max |-> FromInt(c.t_max)]

\* value= of each slider: m 1.0, k 4.0, b 4.0, x0 1.0, v0 0.0, t_max 10.0
Defaults == [m |-> 10, k |-> 40, b |-> 40, x0 |-> 10, v0 |-> 0, t_max |-> 10]

\* z ** 2 as the correctly rounded product z * z, which is what the C
\* library's pow returns for every value the model computes
square(z_) == FMul(z_, z_)

(***************************************************************************)
(* Discriminant display (lines 24-35).                                     *)
(***************************************************************************)
discriminant(b_, m_, k_) ==
    FSub(square(b_), FMul(FMul(FromInt(4), m_), k_))

sidebar_damping_type(d_) ==
    IF FGt(d_, FZero) THEN "Overdamped"
    ELSE IF FEq(d_, FZero) THEN "Critically Damped"
    ELSE "Underdamped"

\* what the sidebar writes: f"{discriminant:.3f}" and the damping type
sidebar_info(b_, m_, k_) ==
    LET d == discriminant(b_, m_, k_)
    IN  [discriminant |-> Format(d, 1000), damping_type |-> sidebar_damping_type(d)]

(***************************************************************************)
(* Time array (line 49): num evenly spaced samples, the first at 0.  An    *)
(* array is kept as what determines it.                                    *)
(***************************************************************************)
NumSamples == 600

linspace(stop_) == [start |-> FZero, stop |-> stop_, num |-> NumSamples]

(***************************************************************************)
(* solve_damped_oscillator (lines 52-74).  Each branch evaluates its       *)
(* locals in the order of the source.  The array x is kept as its length,  *)
(* its first sample x[0] computed as the code computes it, and the closed  *)
(* form (rates, frequency, coefficients) that determines the other         *)
(* samples.  With the result the model keeps the locals of the call and,   *)
(* in steps, the operand of every division and square root it performed.   *)
(***************************************************************************)
\* np.exp, np.cos, np.sin at the first sample: the argument is z * t[0] = z * 0
exp_at_0(z_) == IF FMul(z_, FZero) = FZero THEN FromInt(1) ELSE FNaN
cos_at_0(z_) == IF FMul(z_, FZero) = FZero THEN FromInt(1) ELSE FNaN
sin_at_0(z_) == IF FMul(z_, FZero) = FZero THEN FZero ELSE FNaN

\* lines 57-63
overdamped(gamma, omega0, x0_, v0_, t_) ==
    LET radicand == FSub(square(gamma), square(omega0))
        delta    == FSqrt(radicand)
        r1       == FAdd(FNeg(gamma), delta)
        r2       == FSub(FNeg(gamma), delta)
        gap      == FSub(r1, r2)
        A        == FDiv(FSub(v0_, FMul(r2, x0_)), gap)
        B        == FDiv(FSub(FMul(r1, x0_), v0_), gap)
    IN  [locals |-> [gamma |-> gamma, omega0 |-> omega0, delta |-> delta,
                     r1 |-> r1, r2 |-> r2, A |-> A, B |-> B],
         steps |-> [sqrt_of |-> << radicand >>, divide_by |-> << gap, gap >>],
         x |-> [num |-> t_.num,
                first |-> FAdd(FMul(A, exp_at_0(r1)), FMul(B, exp_at_0(r2))),
                form |-> "A exp(r1 t) + B exp(r2 t)",
                rates |-> << r1, r2 >>, freq |-> FZero, coef |-> << A, B >>],
         damping_type |-> "Overdamped"]

\* lines 65-66
critically_damped(gamma, omega0, x0_, v0_, t_) ==
    LET slope == FAdd(v0_, FMul(gamma, x0_))
    IN  [locals |-> [gamma |-> gamma, omega0 |-> omega0],
         steps |-> [sqrt_of |-> << >>, divide_by |-> << >>],
         x |-> [num |-> t_.num,
                first |-> FMul(exp_at_0(FNeg(gamma)), FAdd(x0_, FMul(slope, t_.start))),
                form |-> "exp(-gamma t) (x0 + (v0 + gamma x0) t)",
                rates |-> << FNeg(gamma) >>, freq |-> FZero, coef |-> << x0_, slope >>],
         damping_type |-> "Critically Damped"]

\* lines 68-72
underdamped(gamma, omega0, x0_, v0_, t_) ==
    LET radicand == FSub(square(omega0), square(gamma))
        omega_d  == FSqrt(radicand)
        C        == x0_
        D        == FDiv(FAdd(v0_, FMul(gamma, x0_)), omega_d)
    IN  [locals |-> [gamma |-> gamma, omega0 |-> omega0, omega_d |-> omega_d,
                     C |-> C, D |-> D],
         steps |-> [sqrt_of |-> << radicand >>, divide_by |-> << omega_d >>],
         x |-> [num |-> t_.num,
                first |-> FMul(exp_at_0(FNeg(gamma)),
                               FAdd(FMul(C, cos_at_0(omega_d)), FMul(D, sin_at_0(omega_d)))),
                form |-> "exp(-gamma t) (C cos(omega_d t) + D sin(omega_d t))",
                rates |-> << FNeg(gamma) >>, freq |-> omega_d, coef |-> << C, D >>],
         damping_type |-> "Underdamped"]

\* a variant of solver_branch with the first comparison the other way round
solver_branch_reversed(gamma, omega0) ==
    IF FGt(omega0, gamma) THEN "Overdamped"
    ELSE IF FEq(gamma, omega0) THEN "Critically Damped"
    ELSE "Underdamped"

\* the branch taken (lines 56, 64, 67)
solver_branch(gamma, omega0) ==
    IF FGt(gamma, omega0) THEN "Overdamped"
    ELSE IF FEq(gamma, omega0) THEN "Critically Damped"
    ELSE "Underdamped"

\* lines 53-54 and the branch's result; steps gains the operands of lines
\* 53-54: the quotient k/m under the root, the divisors m and 2*m
solve_damped_oscillator(m_, k_, b_, x0_, v0_, t_) ==
    LET ratio  == FDiv(k_, m_)
        omega0 == FSqrt(ratio)
        two_m  == FMul(FromInt(2), m_)
        gamma  == FDiv(b_, two_m)
        branch == solver_branch(gamma, omega0)
        r      == IF branch = "Overdamped" THEN overdamped(gamma, omega0, x0_, v0_, t_)
                  ELSE IF branch = "Critically Damped"
                  THEN critically_damped(gamma, omega0, x0_, v0_, t_)
                  ELSE underdamped(gamma, omega0, x0_, v0_, t_)
    IN  [locals |-> r.locals,
         steps |-> [sqrt_of |-> << ratio >> \o r.steps.sqrt_of,
                    divide_by |-> << m_, two_m >> \o r.steps.divide_by],
         x |-> r.x, damping_type |-> r.damping_type]

(***************************************************************************)
(* "Add Trace" handler (lines 85-118).                                     *)
(***************************************************************************)
trace_delta(b_, m_, k_) ==
    FSub(square(b_), FMul(FMul(FromInt(4), m_), k_))

trace_damping_type(d_) ==
    IF FGt(d_, FZero) THEN "Overdamped"
    ELSE IF np_isclose(d_, FZero) THEN "Critically Damped"
    ELSE "Underdamped"

current_params(w_) ==
    LET d == trace_delta(w_.b, w_.m, w_.k)
    IN  [b |-> w_.b, m |-> w_.m, k |-> w_.k, x0 |-> w_.x0, v0 |-> w_.v0,
         delta |-> d, damping_type |-> trace_damping_type(d)]

\* a variant of prev_params that reads the first stored tuple
prev_params_first(traces_) ==
    IF traces_ # << >> THEN traces_[1].params ELSE << >>

\* the dict of the last stored tuple, or the empty dict (lines 96-99)
prev_params(traces_) ==
    IF traces_ # << >> THEN traces_[Len(traces_)].params ELSE << >>

\* a variant of fmt_param that takes a key prev_ lacks for a changed one
fmt_param_absent_changed(prev_, key_, val_) ==
    LET changed == ~(key_ \in DOMAIN prev_ /\ np_isclose(prev_[key_], val_))
    IN  [key |-> key_, val |-> Format(val_, 100), bold |-> changed]

\* one "key=val" term of the label: its text and whether it is set in bold
fmt_param(prev_, key_, val_) ==
    LET changed == key_ \in DOMAIN prev_ /\ ~np_isclose(prev_[key_], val_)
    IN  [key |-> key_, val |-> Format(val_, 100), bold |-> changed]

\* f"{damping_type} (Delta = {delta:.2f}) | " + ", ".join([...]) (lines 106-115)
label(prev_, cur_) ==
    [damping_type |-> cur_.damping_type,
     delta |-> Format(cur_.delta, 100),
     params |-> << fmt_param(prev_, "b", cur_.b),
                   fmt_param(prev_, "m", cur_.m),
                   fmt_param(prev_, "k", cur_.k),
                   fmt_param(prev_, "x0", cur_.x0),
                   fmt_param(prev_, "v0", cur_.v0) >>]

(***************************************************************************)
(* The session's store and the figures.                                   *)
(***************************************************************************)
\* a variant of init_session that creates the store in every run
init_session_every_run(ss_) == [traces |-> << >>]

\* lines 80-81: the store is created only if the session has none
init_session(ss_) ==
    IF "traces" \in DOMAIN ss_ THEN ss_ ELSE [traces |-> << >>]

\* lines 126-129: the chart's traces, the current curve first
chart(name_, traces_) ==
    << [name |-> << "Current", name_ >>, dash |-> "solid"] >>
    \o [i \in 1..Len(traces_) |-> [name |-> traces_[i].label, dash |-> "dash"]]

\* lines 166-187: the export figure holds the stored traces only
export(title_, traces_) ==
    [title |-> title_,
     data |-> [i \in 1..Len(traces_) |-> [name |-> traces_[i].label, dash |-> "dash"]]]

(***************************************************************************)
(* Bounds of the model: the slider configurations the user moves between,  *)
(* the texts typed in the title box and the number of stored traces.       *)
(***************************************************************************)
MaxTraces == 3

Titles == {"", "Run A"}

Cfg(b_, m_, k_, x0_, v0_, t_max_) ==
    [m |-> m_, k |-> k_, b |-> b_, x0 |-> x0_, v0 |-> v0_, t_max |-> t_max_]

\* Configurations of the interactive session, each one slider move from another
Configs ==
    { Defaults,
      Cfg(40, 10, 40, 20, 0, 10),     \* x0 1.0 -> 2.0
      Cfg(40, 10, 40, 10, 5, 10),     \* v0 0.0 -> 0.5
      Cfg(40, 10, 40, 10, 0, 11),     \* duration 10 -> 11
      Cfg(100, 10, 40, 10, 0, 10),    \* b 4.0 -> 10.0
      Cfg(10, 10, 40, 10, 0, 10),     \* b 4.0 -> 1.0
      Cfg(6, 10, 40, 10, 0, 10),      \* b 4.0 -> 0.6
      Cfg(6, 1, 40, 10, 0, 10),       \* m 1.0 -> 0.1
      Cfg(6, 1, 9, 10, 0, 10) }       \* k 4.0 -> 0.9: b*b = 4*m*k in decimals

\* Inputs of the solver and of a freeze: (b, m, k) by (x0, v0), in tenths.
\* The second and third rows are settings with b*b = 4*m*k in decimals whose
\* gamma and omega0 are equal or one unit in the last place apart; the
\* fourth row has the overdamped setting with the smallest delta and the
\* underdamped setting with the smallest omega_d of all slider settings.
SolveTriples ==
    { << 40, 10, 40 >>, << 100, 10, 40 >>, << 10, 10, 40 >>, << 0, 10, 40 >>,
      << 6, 1, 9 >>, << 18, 3, 27 >>, << 14, 49, 1 >>, << 22, 1, 121 >>,
      << 26, 1, 169 >>, << 42, 3, 147 >>, << 126, 21, 189 >>,
      << 42, 63, 7 >>, << 12, 36, 1 >>,
      << 200, 1, 1 >>, << 1, 100, 200 >> }

SolveStarts == { << 10, 0 >>, << -37, 0 >>, << 0, 5 >>, << 33, -100 >>, << 100, 7 >> }

SolveConfigs ==
    { Cfg(p[1], p[2], p[3], q[1], q[2], 10) : p \in SolveTriples, q \in SolveStarts }

(***************************************************************************)
(* One run of the script.                                                  *)
(***************************************************************************)
\* What a run computes from the widget values alone: lines 18-77 and the
\* handler's current_params (lines 86-93)
Evaluate(w_) ==
    [w |-> w_, side |-> sidebar_info(w_.b, w_.m, w_.k), t |-> linspace(w_.t_max),
     sol |-> solve_damped_oscillator(w_.m, w_.k, w_.b, w_.x0, w_.v0, linspace(w_.t_max)),
     cur |-> current_params(w_)]

\* the same for every configuration in cs_
evaluate_all(cs_) == [c \in cs_ |-> Evaluate(Widgets(c))]

\* label for every (prev_params, current_params) pair in keys_
label_all(keys_) == [key \in keys_ |-> label(key[1], key[2])]

\* every library operation, by name and number of arguments; the arguments
\* are evaluated before the operation is applied
Lib(op, a) ==
    CASE Len(a) = 2 ->
          (CASE op = "BCmp"       -> BCmpOf(a[1], a[2])
             [] op = "BMulSmall"  -> BMulSmallOf(a[1], a[2])
             [] op = "BAdd"       -> BAddOf(a[1], a[2])
             [] op = "BSub"       -> BSubOf(a[1], a[2])
             [] op = "BShl"       -> BShlOf(a[1], a[2])
             [] op = "BShr"       -> BShrOf(a[1], a[2])
             [] op = "BMul"       -> BMulOf(a[1], a[2])
             [] op = "BDiv"       -> BDivOf(a[1], a[2])
             [] op = "FCmp"       -> FCmpOf(a[1], a[2])
             [] op = "FAdd"       -> FAddOf(a[1], a[2])
             [] op = "FMul"       -> FMulOf(a[1], a[2])
             [] op = "FDiv"       -> FDivOf(a[1], a[2])
             [] op = "Format"     -> FormatOf(a[1], a[2])
             [] op = "np_isclose" -> np_iscloseOf(a[1], a[2]))
      [] Len(a) = 1 ->
          (CASE op = "BitLen"     -> BitLenOf(a[1])
             [] op = "BSqrt"      -> BSqrtOf(a[1])
             [] op = "FSqrt"      -> FSqrtOf(a[1])
             [] op = "FromInt"    -> FromIntOf(a[1])
             [] op = "Evaluated"  -> evaluate_all(a[1])
             [] op = "labels"     -> label_all(a[1]))
      [] Len(a) = 4 ->
          (CASE op = "Round"      -> RoundOf(a[1], a[2], a[3], a[4]))

\* What a run computes from the widget values, for every configuration of
\* the model: computed once
Evaluated == Lib("Evaluated", << Configs \cup SolveConfigs >>)

\* the (prev_params, current_params) pairs a freeze of the model can meet
LabelKeys(ev_) ==
    { << pv, ev_[c].cur >> :
        pv \in { << >> } \cup { ev_[d].cur : d \in Configs }, c \in Configs }
    \cup { << << >>, ev_[c].cur >> : c \in SolveConfigs }
    \cup { << ev_[c].cur, ev_[c].cur >> : c \in SolveConfigs }

\* label for each of these pairs: computed once
labels == Lib("labels", << LabelKeys(Evaluated) >>)

\* a variant of add_trace that skips a parameter set equal to the last stored
add_trace_skip_equal(traces_, cur_, t_, x_) ==
    IF prev_params(traces_) = cur_ THEN traces_
    ELSE Append(traces_, [t |-> t_, x |-> x_, params |-> cur_,
                          label |-> labels[<< prev_params(traces_), cur_ >>]])

\* st.session_state.traces.append((t.copy(), x.copy(), current_params, label))
add_trace(traces_, cur_, t_, x_) ==
    Append(traces_, [t |-> t_, x |-> x_, params |-> cur_,
                     label |-> labels[<< prev_params(traces_), cur_ >>]])

\* a variant of buttons whose "Clear Traces" removes the last trace only
buttons_clear_last(e_, traces_, click_) ==
    IF click_ = "add" THEN add_trace(traces_, e_.cur, e_.t, e_.sol.x)
    ELSE IF click_ = "clear" THEN SubSeq(traces_, 1, Len(traces_) - 1)
    ELSE traces_

\* lines 85-121: the two buttons; at most one is clicked in a run
buttons(e_, traces_, click_) ==
    IF click_ = "add" THEN add_trace(traces_, e_.cur, e_.t, e_.sol.x)
    ELSE IF click_ = "clear" THEN << >>
    ELSE traces_

\* the name damping_type when the chart is drawn: line 77 binds it to the
\* solver's result, lines 87-91 bind it again when "Add Trace" was clicked
damping_type_at_chart(e_, click_) ==
    IF click_ = "add" THEN e_.cur.damping_type ELSE e_.sol.damping_type

\* what a run leaves: the values read and computed, the store, the figures
page(e_, click_, title_, stored_) ==
    [w |-> e_.w, sidebar |-> e_.side, t |-> e_.t, x |-> e_.sol.x,
     solve_call |-> [locals |-> e_.sol.locals, steps |-> e_.sol.steps,
                     damping_type |-> e_.sol.damping_type],
     damping_type |-> damping_type_at_chart(e_, click_), traces |-> stored_,
     fig |-> chart(damping_type_at_chart(e_, click_), stored_),
     export_fig |-> export(title_, stored_)]

run_on(e_, ss_, click_, title_) ==
    page(e_, click_, title_, buttons(e_, ss_.traces, click_))

\* The script from top to bottom for slider configuration c_, session state
\* ss_, the button that was clicked (if any) and the text of the title box.
Script(c_, ss_, click_, title_) ==
    run_on(Evaluated[c_], init_session(ss_), click_, title_)

(***************************************************************************)
(* State.  sliders and custom_title are the widgets' state; clicked is the *)
(* button that returned True in the last run; solve_call is what the last  *)
(* run's call of solve_damped_oscillator went through and the tag it       *)
(* returned; the rest are the script's names after the last run.           *)
(***************************************************************************)
VARIABLES sliders, custom_title, clicked, session_state,
          m, k, b, x0, v0, t_max, sidebar, t, x, solve_call, damping_type,
          fig, export_fig

vars == << sliders, custom_title, clicked, session_state,
           m, k, b, x0, v0, t_max, sidebar, t, x, solve_call, damping_type,
           fig, export_fig >>

traces == session_state.traces

\* the session opens: first run, default widgets, empty session state
Init ==
    \E r \in { Script(Defaults, << >>, "none", "") } :
        /\ sliders = Defaults
        /\ custom_title = ""
        /\ clicked = "none"
        /\ session_state = [traces |-> r.traces]
        /\ m = r.w.m /\ k = r.w.k /\ b = r.w.b /\ x0 = r.w.x0 /\ v0 = r.w.v0
        /\ t_max = r.w.t_max
        /\ sidebar = r.sidebar /\ t = r.t /\ x = r.x /\ solve_call = r.solve_call
        /\ damping_type = r.damping_type
        /\ fig = r.fig /\ export_fig = r.export_fig

\* a rerun of the script after one interaction
Run(c_, click_, title_) ==
    \E r \in { Script(c_, session_state, click_, title_) } :
        /\ sliders' = c_
        /\ custom_title' = title_
        /\ clicked' = click_
        /\ session_state' = [traces |-> r.traces]
        /\ m' = r.w.m /\ k' = r.w.k /\ b' = r.w.b /\ x0' = r.w.x0 /\ v0' = r.w.v0
        /\ t_max' = r.w.t_max
        /\ sidebar' = r.sidebar /\ t' = r.t /\ x' = r.x /\ solve_call' = r.solve_call
        /\ damping_type' = r.damping_type
        /\ fig' = r.fig /\ export_fig' = r.export_fig

ParamKeys == {"b", "m", "k", "x0", "v0"}

\* the user moves one of the five parameter sliders
ChangeParameter ==
    \E c \in Configs :
        /\ Cardinality({f \in ParamKeys : c[f] # sliders[f]}) = 1
        /\ c.t_max = sliders.t_max
        /\ Run(c, "none", custom_title)

\* the user moves the duration slider
ChangeDuration ==
    \E c \in Configs :
        /\ \A f \in ParamKeys : c[f] = sliders[f]
        /\ c.t_max # sliders.t_max
        /\ Run(c, "none", custom_title)

\* the user edits the export title
EditTitle ==
    \E s \in Titles : s # custom_title /\ Run(sliders, "none", s)

\* the user clicks "Add Trace"
AddTrace ==
    /\ Len(traces) < MaxTraces
    /\ Run(sliders, "add", custom_title)

\* the user clicks "Clear Traces"
ClearTraces == Run(sliders, "clear", custom_title)

Next == ChangeParameter \/ ChangeDuration \/ EditTitle \/ AddTrace \/ ClearTraces

Spec == Init /\ [][Next]_vars

\* A session whose sliders were set to any of the solver inputs before the
\* first freeze; then only the two buttons are used.
InitSolve ==
    \E c \in SolveConfigs :
        \E r \in { Script(c, << >>, "none", "") } :
            /\ sliders = c
            /\ custom_title = ""
            /\ clicked = "none"
            /\ session_state = [traces |-> r.traces]
            /\ m = r.w.m /\ k = r.w.k /\ b = r.w.b /\ x0 = r.w.x0 /\ v0 = r.w.v0
            /\ t_max = r.w.t_max
            /\ sidebar = r.sidebar /\ t = r.t /\ x = r.x /\ solve_call = r.solve_call
            /\ damping_type = r.damping_type
            /\ fig = r.fig /\ export_fig = r.export_fig

NextSolve == AddTrace \/ ClearTraces

SpecSolve == InitSolve /\ [][NextSolve]_vars

(***************************************************************************)
(* Properties.  An "Add Trace" run is a step to clicked' = "add", a        *)
(* "Clear Traces" run a step to clicked' = "clear", any other run a step   *)
(* to clicked' = "none".                                                   *)
(***************************************************************************)
last(traces_) == traces_[Len(traces_)]

\* the keys of a label's terms, in the order of the label
ParamOrder == << "b", "m", "k", "x0", "v0" >>

\* the three tags
Regimes == {"Overdamped", "Critically Damped", "Underdamped"}

\* the branch of the solver that computed the curve x_
curve_branch(x_) ==
    IF x_.form = "A exp(r1 t) + B exp(r2 t)" THEN "Overdamped"
    ELSE IF x_.form = "exp(-gamma t) (x0 + (v0 + gamma x0) t)" THEN "Critically Damped"
    ELSE "Underdamped"

\* C1: when "Add Trace" is clicked with a non-empty store, the new record
\* holds the current parameters and, for each of b, m, k, x0, v0 in this
\* order, its label sets the term in bold if and only if the new value is
\* not np.isclose to the value in the last record of the store before the
\* click (not to the value in any earlier record).
C1_BoldIffChangedFromLast ==
    [][(clicked' = "add" /\ traces # << >>) =>
          /\ last(traces').params.b = b' /\ last(traces').params.m = m'
          /\ last(traces').params.k = k' /\ last(traces').params.x0 = x0'
          /\ last(traces').params.v0 = v0'
          /\ \A i \in 1..5 :
                /\ last(traces').label.params[i].key = ParamOrder[i]
                /\ last(traces').label.params[i].bold
                     <=> ~np_isclose(last(traces).params[ParamOrder[i]],
                                     last(traces').params[ParamOrder[i]])]_vars

\* three records: the second differs from the first in x0, the third repeats
\* the second and has no term in bold
C1_Witness ==
    /\ clicked = "add" /\ Len(traces) = 3
    /\ traces[1].params.x0 # traces[2].params.x0
    /\ traces[2].label.params[4].bold
    /\ \A i \in {1, 2, 3, 5} : ~traces[2].label.params[i].bold
    /\ traces[3].params = traces[2].params
    /\ \A i \in 1..5 : ~traces[3].label.params[i].bold

\* C2: every "Add Trace" makes the store one record longer, leaves the
\* records it held where they were, and puts at the end a record of the
\* run's time array and displacement; a parameter set equal to the last
\* record's is appended like any other.
C2_AppendOnly ==
    [][clicked' = "add" =>
          /\ Len(traces') = Len(traces) + 1
          /\ SubSeq(traces', 1, Len(traces)) = traces
          /\ traces'[Len(traces) + 1].t = t'
          /\ traces'[Len(traces) + 1].x = x']_vars

\* the same parameter set stored twice in a row
C2_Witness ==
    /\ clicked = "add" /\ Len(traces) >= 2
    /\ traces[Len(traces) - 1].params = last(traces).params

\* C3: "Clear Traces" leaves the store empty whatever it held, and an "Add
\* Trace" on the emptied store gives a store of length 1, the new record
\* at its first position.
C3_ClearThenFirst ==
    [][/\ clicked' = "clear" => traces' = << >>
       /\ (clicked' = "add" /\ traces = << >>) =>
             (Len(traces') = 1 /\ traces'[1].x = x')]_vars

\* the run of a "Clear Traces" click: only the current curve is drawn
C3_Witness == clicked = "clear" /\ traces = << >> /\ Len(fig) = 1

\* C4: "Add Trace" on an empty store puts no term of the label in bold,
\* at the first freeze of the session and at the first after a clear.
C4_FirstFreezePlain ==
    [][(clicked' = "add" /\ traces = << >>) =>
          \A i \in 1..5 : ~traces'[1].label.params[i].bold]_vars

\* a first record for other than the default parameters
C4_Witness ==
    /\ clicked = "add" /\ Len(traces) = 1 /\ sliders.b # Defaults.b
    /\ \A i \in 1..5 : ~traces[1].label.params[i].bold

\* C5: the solver takes the critically damped branch whenever gamma is
\* np.isclose to omega0, the overdamped branch only for gamma above omega0
\* by more than that tolerance and the underdamped branch only for gamma
\* below omega0 by more than that tolerance.
C5_BranchWithinTolerance ==
    /\ np_isclose(solve_call.locals.gamma, solve_call.locals.omega0)
          => solve_call.damping_type = "Critically Damped"
    /\ solve_call.damping_type = "Overdamped"
          => FGt(solve_call.locals.gamma, solve_call.locals.omega0)
    /\ solve_call.damping_type = "Underdamped"
          => FGt(solve_call.locals.omega0, solve_call.locals.gamma)

\* C6: the damping type in a stored record's parameters and label is the
\* branch the solver took for the curve stored in the same record.
C6_LabelIsSolverBranch ==
    \A i \in 1..Len(traces) :
        /\ traces[i].params.damping_type = curve_branch(traces[i].x)
        /\ traces[i].label.damping_type = curve_branch(traces[i].x)

\* C7: the call of the solver divides by no zero and takes no square root
\* of a negative number, returns as many samples as the time array has
\* (600) and one of the three tags, and every sample is finite: the
\* coefficients and the frequency are finite and no rate is positive.
C7_SolverTotal ==
    /\ \A i \in DOMAIN solve_call.steps.divide_by :
          /\ IsFinite(solve_call.steps.divide_by[i])
          /\ solve_call.steps.divide_by[i].sg # 0
    /\ \A i \in DOMAIN solve_call.steps.sqrt_of :
          /\ IsFinite(solve_call.steps.sqrt_of[i])
          /\ solve_call.steps.sqrt_of[i].sg >= 0
    /\ x.num = t.num /\ x.num = NumSamples
    /\ solve_call.damping_type \in Regimes
    /\ solve_call.damping_type = curve_branch(x)
    /\ IsFinite(x.first) /\ IsFinite(x.freq)
    /\ \A i \in DOMAIN x.coef : IsFinite(x.coef[i])
    /\ \A i \in DOMAIN x.rates : IsFinite(x.rates[i]) /\ x.rates[i].sg <= 0

\* the overdamped branch on b = 4.2, m = 0.3, k = 14.7: four divisions, two
\* square roots, the last of a number below 10^-13
C7_Witness ==
    /\ sliders.b = 42 /\ sliders.m = 3 /\ sliders.k = 147
    /\ Len(solve_call.steps.divide_by) = 4 /\ Len(solve_call.steps.sqrt_of) = 2
    /\ solve_call.steps.sqrt_of[2].sg = 1 /\ solve_call.steps.sqrt_of[2].e < -96

\* the derivative at t = 0 of the closed form the solver evaluated
initial_velocity(call_, x0_, v0_) ==
    IF call_.damping_type = "Overdamped"
    THEN FAdd(FMul(call_.locals.A, call_.locals.r1), FMul(call_.locals.B, call_.locals.r2))
    ELSE IF call_.damping_type = "Critically Damped"
    THEN FAdd(FMul(FNeg(call_.locals.gamma), x0_), FAdd(v0_, FMul(call_.locals.gamma, x0_)))
    ELSE FAdd(FMul(FNeg(call_.locals.gamma), call_.locals.C),
              FMul(call_.locals.omega_d, call_.locals.D))

\* C8: the first sample of the displacement is x0 and the derivative of the
\* closed form at t = 0 is v0, both to within np.isclose's tolerance.
C8_InitialConditions ==
    /\ np_isclose(x.first, x0)
    /\ np_isclose(initial_velocity(solve_call, x0, v0), v0)

\* C9: a run in which neither button was clicked (a parameter or the
\* duration changed, the title edited; the chart and the export are built
\* in every run) leaves the session's store as it was.
C9_OnlyButtonsChangeStore ==
    [][clicked' = "none" => session_state' = session_state]_vars

\* two records kept through a change of duration and an edit of the title
C9_Witness ==
    /\ clicked = "none" /\ Len(traces) = 2
    /\ sliders.t_max # Defaults.t_max /\ custom_title # ""
    /\ traces[1].t.stop # t.stop /\ Len(export_fig.data) = 2

\* C10: in a run that stores a trace, the damping type the sidebar shows
\* is the damping type in the stored trace's label.
C10_DisplayIsLabel ==
    clicked = "add" => sidebar.damping_type = last(traces).label.damping_type

====
